---- MODULE Spec2Model ----
(***************************************************************************)
(* Agent pipeline of Agent.py: the module-level credential check, the four *)
(* concrete stages (Input, Retrieval, Summarization, FileStorage), the     *)
(* abstract base stage, and Workflow.run driving perceive/act over an      *)
(* ordered stage sequence.                                                 *)
(*                                                                         *)
(* Python strings are sequences of one-character strings.  Python values   *)
(* that flow between stages are tagged records (None, str, list), list     *)
(* elements are tagged records (dict with an optional content field, str), *)
(* so that the dynamic type errors of the code are part of the model.      *)
(***************************************************************************)
EXTENDS Integers, Sequences, FiniteSets, TLC

\* ------------------------------------------------------------- bounds
\* Longest article list a retrieval response (or an initial input) carries.
MaxArticles == 2

\* ------------------------------------------------------------- values
NoneV == [t |-> "none", s |-> <<>>, l |-> <<>>]
StrV(x) == [t |-> "str", s |-> x, l |-> <<>>]
ListV(x) == [t |-> "list", s |-> <<>>, l |-> x]

\* A list element: a JSON object (dict) whose content field is absent or a
\* string, or a plain str.
DictE(f, c) == [k |-> "dict", f |-> f, c |-> c]
StrE(c) == [k |-> "str", f |-> "str", c |-> c]

\* Python truthiness of a value: None and the empty str / list are falsy.
Truthy(v) == (v.t = "str" /\ v.s # <<>>) \/ (v.t = "list" /\ v.l # <<>>)

\* Iterating a value with `for x in v`: a list yields its elements, a str
\* yields its characters as one-character strs.  (None is not iterable.)
Iter(v) == IF v.t = "list" THEN v.l ELSE [n \in 1..Len(v.s) |-> StrE(<<v.s[n]>>)]

Whitespace == {" ", "\n", "\t"}

RECURSIVE LStrip(_)
LStrip(s) == IF s # <<>> /\ Head(s) \in Whitespace THEN LStrip(Tail(s)) ELSE s

RECURSIVE RStrip(_)
RStrip(s) ==
    IF s # <<>> /\ s[Len(s)] \in Whitespace THEN RStrip(SubSeq(s, 1, Len(s) - 1)) ELSE s

\* str.strip()
Strip(s) == RStrip(LStrip(s))

\* ------------------------------------------------------------- fixed texts
NoContentText ==
    << "N","o"," ","c","o","n","t","e","n","t"," ","t","o"," ",
       "s","u","m","m","a","r","i","z","e","." >>
UnavailableText ==
    << "S","u","m","m","a","r","y"," ","u","n","a","v","a","i","l","a","b","l","e","." >>
SavedText ==
    << "S","u","m","m","a","r","i","e","s"," ","s","a","v","e","d"," ","t","o"," ",
       "r","e","s","e","a","r","c","h","_","s","u","m","m","a","r","i","e","s",".",
       "t","x","t","." >>
PromptPrefix ==
    << "S","u","m","m","a","r","i","z","e"," ","t","h","e"," ",
       "f","o","l","l","o","w","i","n","g"," ","a","r","t","i","c","l","e",":","\n","\n" >>
Separator == << "\n", "\n" >>

\* ------------------------------------------------------------- inputs
\* Values an environment variable can have: unset, empty, a key.
EnvValues == {NoneV, StrV(<<>>), StrV(<<"k">>)}
EnvNames == {"OPENAI_API_KEY", "NEWS_API_KEY"}

Topics == {<<>>, <<"A", "I">>}
Contents == {<<>>, <<"x">>, <<"y">>}
\* Article records of a response body: content absent, empty or non-empty.
ArticleElems == {DictE("absent", <<>>)} \cup {DictE("str", c) : c \in Contents}

SeqsUpTo(S, n) == UNION {[1..m -> S] : m \in 0..n}

ArticleLists == SeqsUpTo(ArticleElems, MaxArticles)

\* Texts the model service can answer with (choices[0].text).
RawTexts == {<<" ", "a", "\n">>, <<" ">>}
\* Outcome of one model-inference call: it raised, or it returned a text.
Outcomes == {[raised |-> TRUE, text |-> <<>>]} \cup {[raised |-> FALSE, text |-> t] : t \in RawTexts}

Statuses == {200, 404, 500}
\* Outcome of the retrieval query: a network exception, or a response with a
\* status and a body that is not JSON, or a JSON object with or without the
\* articles field.
QueryOutcomes ==
    {[exc |-> "ConnectionError", status |-> 0, valid |-> FALSE, has |-> FALSE, articles |-> <<>>]}
    \cup {[exc |-> "none", status |-> st, valid |-> FALSE, has |-> FALSE, articles |-> <<>>] :
            st \in Statuses}
    \cup {[exc |-> "none", status |-> st, valid |-> TRUE, has |-> FALSE, articles |-> <<>>] :
            st \in Statuses}
    \cup {[exc |-> "none", status |-> st, valid |-> TRUE, has |-> TRUE, articles |-> a] :
            st \in Statuses, a \in ArticleLists}

\* The stage classes: the abstract base and its four implementations.
Kinds == {"Agent", "Input", "Retrieval", "Summarization", "Storage"}
StandardChain == <<"Input", "Retrieval", "Summarization", "Storage">>
\* The stage sequences a Workflow is built over: the chain of the entry
\* point, its prefixes, and chains that start elsewhere, repeat a stage or
\* hold a stage that does not implement the contract.
Chains ==
    { <<>>, <<"Input">>, <<"Input", "Retrieval">>,
      <<"Input", "Retrieval", "Summarization">>, StandardChain,
      <<"Agent">>, <<"Input", "Agent", "Storage">>, <<"Input", "Input">>,
      <<"Summarization", "Storage">>, <<"Storage", "Input">>,
      <<"Input", "Storage", "Storage">> }

\* Initial inputs handed to Workflow.run.
Inputs ==
    {NoneV} \cup {StrV(tp) : tp \in Topics}
    \cup {ListV(<<>>), ListV(<<DictE("str", <<"x">>)>>), ListV(<<StrE(<<"s">>)>>)}

\* Contents of the output location before the process starts.
NoFile == [exists |-> FALSE, data |-> <<>>]
PriorFiles ==
    { NoFile,
      [exists |-> TRUE, data |-> <<"o", "l", "d", "\n", "\n">>],
      \* what an earlier process left when it had no summaries
      [exists |-> TRUE, data |-> <<>>],
      \* what an earlier process left for one article without content
      [exists |-> TRUE, data |-> NoContentText \o Separator] }

\* ------------------------------------------------------------- stage code
NoExc == [type |-> "none", msg |-> ""]
Exc(ty, m) == [type |-> ty, msg |-> m]

\* The check forgets the second credential.
CredentialCheckFirstOnly(openai_api_key, news_api_key) ==
    IF ~Truthy(openai_api_key)
    THEN Exc("ValueError", "The environment variable OPENAI_API_KEY is not set.")
    ELSE NoExc

\* Module-level credential check: the exception it raises, or NoExc.
CredentialCheck(openai_api_key, news_api_key) ==
    IF ~Truthy(openai_api_key)
    THEN Exc("ValueError", "The environment variable OPENAI_API_KEY is not set.")
    ELSE IF ~Truthy(news_api_key)
    THEN Exc("ValueError", "The environment variable NEWS_API_KEY is not set.")
    ELSE NoExc

\* Result of an act() call: the exception it raised (or NoExc), the value it
\* returned, the notices it printed, the model calls it issued.
Result(e, r, o, c) == [exc |-> e, ret |-> r, out |-> o, calls |-> c]

\* act hands on None for an empty topic.
InputActDefaulting(topic) ==
    Result(NoExc, IF Truthy(topic) THEN topic ELSE NoneV,
           <<"Proceeding with research on: {topic}">>, <<>>)

\* InputAgent.act
InputAct(topic) ==
    Result(NoExc, topic, <<"Proceeding with research on: {topic}">>, <<>>)

\* act extracts the articles without looking at the status.
RetrievalActAnyStatus(response) ==
    IF response.exc # "none" THEN Result(Exc(response.exc, ""), NoneV, <<>>, <<>>)
    ELSE IF ~response.valid THEN Result(Exc("JSONDecodeError", ""), NoneV, <<>>, <<>>)
    ELSE Result(NoExc, ListV(IF response.has THEN response.articles ELSE <<>>),
                <<"Retrieved {n} articles.">>, <<>>)

\* RetrievalAgent.act, given the outcome of the query decide() issues.
RetrievalAct(response) ==
    IF response.exc # "none" THEN Result(Exc(response.exc, ""), NoneV, <<>>, <<>>)
    ELSE IF response.status = 200
    THEN IF ~response.valid THEN Result(Exc("JSONDecodeError", ""), NoneV, <<>>, <<>>)
         ELSE LET articles == IF response.has THEN response.articles ELSE <<>>
              IN Result(NoExc, ListV(articles), <<"Retrieved {n} articles.">>, <<>>)
    ELSE Result(NoExc, ListV(<<>>), <<"Failed to retrieve articles.">>, <<>>)

\* article.get("content", "")
ArticleGet(article) == IF article.f = "absent" THEN <<>> ELSE article.c

\* decide() calls the model for every article.
NeedsModelCallAlways(content) == TRUE

\* Whether decide() issues a model call for this content (`if not content`).
NeedsModelCall(content) == content # <<>>

\* The prompt and parameters of one model-inference call.
ModelCall(content) ==
    [model |-> "text-davinci-003", prompt |-> PromptPrefix \o content, max_tokens |-> 100]

\* The summary derived from a model response: choices[0].text.strip()
DerivedSummary(text) == Strip(text)

\* The model call's exception is not caught: it leaves decide().
OnModelFailureUncaught(st) == [st EXCEPT !.exc = Exc("OpenAIError", "")]

\* What decide() does after a model call raised (except Exception): print
\* the error, append the failure placeholder, go on with the next article.
OnModelFailure(st) ==
    [st EXCEPT !.summaries = Append(@, StrE(UnavailableText)),
               !.out = Append(@, "Error summarizing article: {e}")]

\* SummarizationAgent.decide: the loop over self.articles from position n,
\* st holding the summaries, model calls and notices so far.  outcomes[n] is
\* what the model service does if it is called for article n.
RECURSIVE DecideLoop(_, _, _, _)
DecideLoop(articles, outcomes, n, st) ==
    IF n > Len(articles) \/ st.exc.type # "none" THEN st
    ELSE LET article == articles[n] IN
         IF article.k # "dict" THEN [st EXCEPT !.exc = Exc("AttributeError", "")]
         ELSE LET content == ArticleGet(article) IN
              IF ~NeedsModelCall(content)
              THEN DecideLoop(articles, outcomes, n + 1,
                              [st EXCEPT !.summaries = Append(@, StrE(NoContentText))])
              ELSE LET called == [st EXCEPT !.calls =
                                      Append(@, [request |-> ModelCall(content),
                                                 outcome |-> outcomes[n],
                                                 article |-> n])] IN
                   IF outcomes[n].raised
                   THEN DecideLoop(articles, outcomes, n + 1, OnModelFailure(called))
                   ELSE DecideLoop(articles, outcomes, n + 1,
                                   [called EXCEPT !.summaries =
                                        Append(@, StrE(DerivedSummary(outcomes[n].text)))])

\* SummarizationAgent.decide
SummarizationDecide(articles, outcomes) ==
    LET st0 == [exc |-> NoExc, summaries |-> <<>>, calls |-> <<>>, out |-> <<>>] IN
    IF articles.t = "none" THEN [st0 EXCEPT !.exc = Exc("TypeError", "")]
    ELSE DecideLoop(Iter(articles), outcomes, 1, st0)

\* SummarizationAgent.act
SummarizationAct(articles, outcomes) ==
    LET d == SummarizationDecide(articles, outcomes) IN
    IF d.exc # NoExc THEN Result(d.exc, NoneV, d.out, d.calls)
    ELSE Result(NoExc, ListV(d.summaries),
                d.out \o [n \in 1..Len(d.summaries) |-> "Summary {idx}: {summary}"],
                d.calls)

\* The file is opened for appending.
OpenAppend(file) == [file EXCEPT !.exists = TRUE]

\* open("research_summaries.txt", "w"): the file exists and is empty.
OpenW(file) == [exists |-> TRUE, data |-> <<>>]

\* file.write(summary + "\n\n")
WriteEntry(file, summary) == [file EXCEPT !.data = @ \o summary \o Separator]

\* FileStorageAgent.decide
StorageDecide == SavedText

\* ------------------------------------------------------------- state
VARIABLES
    env,           \* the process environment: variable name -> value
    pc,            \* position of the process
    exc,           \* the exception that ended the process, or NoExc
    agents,        \* Workflow.agents: the stage classes, in order
    slot,          \* per stage, the attribute perceive() stores (topic / articles / summaries)
    initial_input, \* the argument of Workflow.run
    current_data,  \* Workflow.run's local
    idx,           \* position of run's for loop in agents
    file,          \* research_summaries.txt
    prior,         \* what the file was before the process started
    handle,        \* the file object of FileStorageAgent.act: "closed" or "open"
    wpos,          \* position of act's for loop in self.summaries
    queries,       \* the retrieval queries issued, each with its outcome
    calls,         \* the model-inference calls issued, each with its outcome
    stdout,        \* the printed notices
    trace,         \* the perceive / act calls and act returns, in the order they happen
    tid,           \* the run whose locals pc, exc, initial_input, current_data, idx are
    other          \* the locals of the other run on the same Workflow, if there is one

vars == <<env, pc, exc, agents, slot, initial_input, current_data, idx, file, prior,
          handle, wpos, queries, calls, stdout, trace, tid, other>>

Ev(op, stage, val) == [op |-> op, stage |-> stage, val |-> val, run |-> tid]

\* The locals of a run of Workflow.run.
Locals(t, p, e, inp, cur, n) ==
    [tid |-> t, pc |-> p, exc |-> e, initial_input |-> inp, current_data |-> cur, idx |-> n]
\* There is no other run.
NoRun == Locals("none", "none", NoExc, NoneV, NoneV, 0)

Init ==
    /\ env \in [EnvNames -> EnvValues]
    /\ prior \in PriorFiles
    /\ file = prior
    /\ pc = "import"
    /\ exc = NoExc
    /\ agents = <<>>
    /\ slot = <<>>
    /\ initial_input = NoneV
    /\ current_data = NoneV
    /\ idx = 0
    /\ handle = "closed"
    /\ wpos = 0
    /\ queries = <<>>
    /\ calls = <<>>
    /\ stdout = <<>>
    /\ trace = <<>>
    /\ tid = "A"
    /\ other = NoRun

\* Lines 6-15: read the two credentials, raise if one is missing.
Import ==
    /\ pc = "import"
    /\ LET e == CredentialCheck(env["OPENAI_API_KEY"], env["NEWS_API_KEY"]) IN
       /\ exc' = e
       /\ pc' = IF e = NoExc THEN "main" ELSE "config_error"
    /\ UNCHANGED <<env, tid, other, agents, slot, initial_input, current_data, idx, file, prior,
                   handle, wpos, queries, calls, stdout, trace>>

\* Construct the stages and the Workflow, and enter run(input_data).
Main ==
    /\ pc = "main"
    /\ \E chain \in Chains, input_data \in Inputs :
          /\ agents' = chain
          /\ slot' = [n \in 1..Len(chain) |-> NoneV]
          /\ initial_input' = input_data
          /\ current_data' = input_data
    /\ idx' = 1
    /\ pc' = "loop"
    /\ UNCHANGED <<env, tid, other, exc, file, prior, handle, wpos, queries, calls, stdout, trace>>

\* The loop skips the stage after position n.
NextIndexSkipping(n) == n + 2

\* The for loop of run moves to the stage after position n.
NextIndex(n) == n + 1

\* The value act returned is dropped: run keeps what it held.
HandoffDropped(previous, returned) == previous

\* current_data = agent.act(): what run holds after act returned.
Handoff(previous, returned) == returned

\* run swallows the exception and goes on with the next stage.
PropagateSwallowed(e) ==
    /\ pc' = "loop"
    /\ exc' = e
    /\ idx' = idx + 1
    /\ current_data' = NoneV

\* An exception raised by perceive or act: run has no handler, it leaves run
\* and ends the process.
Propagate(e) ==
    /\ pc' = "raised"
    /\ exc' = e
    /\ UNCHANGED <<idx, current_data>>

\* act returned r.ret (or raised r.exc) at stage idx.
Return(r) ==
    IF r.exc # NoExc THEN Propagate(r.exc)
    ELSE /\ current_data' = Handoff(current_data, r.ret)
         /\ idx' = NextIndex(idx)
         /\ pc' = "loop"
         /\ exc' = exc

\* perceive keeps a value it already holds.
StoredOnce(held, input_data) == IF held = NoneV THEN input_data ELSE held

\* perceive: self.topic = input_data (self.articles, self.summaries): what the
\* attribute holds afterwards, given what it held.
Stored(held, input_data) == input_data

\* agent.perceive(current_data) of the stage at idx.
Perceive ==
    /\ pc = "loop"
    /\ idx <= Len(agents)
    /\ trace' = Append(trace, Ev("perceive", idx, current_data))
    /\ IF agents[idx] = "Agent"
       THEN /\ Propagate(Exc("NotImplementedError", "Perceive method must be implemented."))
            /\ slot' = slot
       ELSE /\ slot' = [slot EXCEPT ![idx] = Stored(@, current_data)]
            /\ pc' = "act"
            /\ UNCHANGED <<exc, idx, current_data>>
    /\ UNCHANGED <<env, tid, other, agents, initial_input, file, prior, handle, wpos, queries, calls,
                   stdout>>

\* The loop is exhausted: print the completion notice, run returns.
Complete ==
    /\ pc = "loop"
    /\ idx > Len(agents)
    /\ stdout' = Append(stdout, "Workflow completed.")
    /\ pc' = "completed"
    /\ UNCHANGED <<env, tid, other, exc, agents, slot, initial_input, current_data, idx, file, prior,
                   handle, wpos, queries, calls, trace>>

\* The trace of an act call with result r.
Acted(r) ==
    IF r.exc # NoExc THEN Append(trace, Ev("act", idx, NoneV))
    ELSE trace \o <<Ev("act", idx, NoneV), Ev("ret", idx, r.ret)>>

ActInput ==
    /\ pc = "act"
    /\ agents[idx] = "Input"
    /\ LET r == InputAct(slot[idx]) IN
       /\ Return(r)
       /\ stdout' = stdout \o r.out
       /\ trace' = Acted(r)
    /\ UNCHANGED <<env, tid, other, agents, slot, initial_input, file, prior, handle, wpos, queries,
                   calls>>

\* act queries again after a failed query.
IssueQueryWithRetry(log, query) ==
    IF query.response.exc # "none" \/ query.response.status # 200
    THEN Append(Append(log, query), query)
    ELSE Append(log, query)

\* response = self.decide(): act issues the query, once.
IssueQuery(log, query) == Append(log, query)

ActRetrieval ==
    /\ pc = "act"
    /\ agents[idx] = "Retrieval"
    /\ \E response \in QueryOutcomes :
          LET r == RetrievalAct(response) IN
          /\ queries' = IssueQuery(queries, [stage |-> idx, q |-> slot[idx],
                                             apiKey |-> env["NEWS_API_KEY"],
                                             response |-> response, run |-> tid])
          /\ Return(r)
          /\ stdout' = stdout \o r.out
          /\ trace' = Acted(r)
    /\ UNCHANGED <<env, tid, other, agents, slot, initial_input, file, prior, handle, wpos, calls>>

ActSummarization ==
    /\ pc = "act"
    /\ agents[idx] = "Summarization"
    /\ \E outcomes \in [1..(IF slot[idx].t = "none" THEN 0 ELSE Len(Iter(slot[idx]))) -> Outcomes] :
          LET r == SummarizationAct(slot[idx], outcomes) IN
          /\ calls' = calls \o [n \in 1..Len(r.calls) |->
                                   [stage |-> idx, request |-> r.calls[n].request,
                                    outcome |-> r.calls[n].outcome,
                                    article |-> r.calls[n].article, run |-> tid]]
          /\ Return(r)
          /\ stdout' = stdout \o r.out
          /\ trace' = Acted(r)
    /\ UNCHANGED <<env, tid, other, agents, slot, initial_input, file, prior, handle, wpos, queries>>

\* act catches the exception and returns its message all the same.
StorageRaiseCaught(e) ==
    /\ pc' = "loop"
    /\ exc' = e
    /\ idx' = idx + 1
    /\ current_data' = StrV(StorageDecide)

\* An exception inside FileStorageAgent.act: act has no handler.
StorageRaise(e) == Propagate(e)

\* The file stays open when the with block is left.
WithExitLeaking == "open"

\* Leaving the with block, normally or on an exception, closes the file.
WithExit == "closed"

\* The loop ends one summary early.
LoopDoneEarly(pos, summaries) == pos >= Len(summaries)

\* The for loop over self.summaries is exhausted at position pos.
LoopDone(pos, summaries) == pos > Len(summaries)

\* FileStorageAgent.act, line 144: open the file for writing (truncating
\* it), or fail to.
StorageOpen ==
    /\ pc = "act"
    /\ agents[idx] = "Storage"
    /\ trace' = Append(trace, Ev("act", idx, NoneV))
    /\ \E ok \in BOOLEAN :
          IF ok
          THEN /\ file' = OpenW(file)
               /\ handle' = "open"
               /\ wpos' = 1
               /\ pc' = "write"
               /\ UNCHANGED <<exc, idx, current_data, stdout>>
          ELSE /\ StorageRaise(Exc("OSError", "open"))
               /\ UNCHANGED <<file, handle, wpos, stdout>>
    /\ UNCHANGED <<env, tid, other, agents, slot, initial_input, prior, queries, calls>>

\* Lines 145-146: one iteration of the loop over self.summaries.  Leaving
\* the with block on an exception closes the file.
StorageWrite ==
    /\ pc = "write"
    /\ IF slot[idx].t = "none"
       THEN /\ StorageRaise(Exc("TypeError", "'NoneType' object is not iterable"))
            /\ handle' = WithExit
            /\ UNCHANGED <<file, wpos>>
       ELSE /\ ~LoopDone(wpos, Iter(slot[idx]))
            /\ LET summary == Iter(slot[idx])[wpos] IN
               IF summary.k # "str"
               THEN /\ StorageRaise(Exc("TypeError", "unsupported operand type(s) for +"))
                    /\ handle' = WithExit
                    /\ UNCHANGED <<file, wpos>>
               ELSE \E ok \in BOOLEAN :
                       IF ok
                       THEN /\ file' = WriteEntry(file, summary.c)
                            /\ wpos' = wpos + 1
                            /\ UNCHANGED <<pc, exc, idx, current_data, handle>>
                       ELSE /\ StorageRaise(Exc("OSError", "write"))
                            /\ handle' = WithExit
                            /\ UNCHANGED <<file, wpos>>
    /\ UNCHANGED <<env, tid, other, agents, slot, initial_input, prior, queries, calls, stdout, trace>>

\* Lines 147-149: the loop is done, the with block closes the file; decide,
\* print and return the message.
StorageFinish ==
    /\ pc = "write"
    /\ slot[idx].t # "none"
    /\ LoopDone(wpos, Iter(slot[idx]))
    /\ handle' = WithExit
    /\ LET message == StorageDecide
           r == Result(NoExc, StrV(message), <<"Summaries saved to research_summaries.txt.">>, <<>>)
       IN /\ Return(r)
          /\ stdout' = stdout \o r.out
          /\ trace' = Append(trace, Ev("ret", idx, r.ret))
    /\ UNCHANGED <<env, tid, other, agents, slot, initial_input, file, prior, wpos, queries, calls>>

Next ==
    \/ Import
    \/ Main
    \/ Perceive
    \/ Complete
    \/ ActInput
    \/ ActRetrieval
    \/ ActSummarization
    \/ StorageOpen
    \/ StorageWrite
    \/ StorageFinish

Spec == Init /\ [][Next]_vars

\* ------------------------------------------------------------- two runs
\* Responses of the retrieval service in the specifications with two runs.
FewQueryOutcomes ==
    {r \in QueryOutcomes :
        /\ r.status \in {0, 200, 404}
        /\ Len(r.articles) <= 1
        /\ (r.status = 404 => r.valid /\ r.has)}
\* Arguments of the two calls of run.
FewInputs == {StrV(tp) : tp \in Topics} \cup {ListV(<<DictE("str", <<"x">>)>>)}

\* Construct the stages and the Workflow once; run is called on it twice,
\* with input_a and with input_b.  The first call is entered here.
MainTwice ==
    /\ pc = "main"
    /\ \E chain \in Chains, input_a \in FewInputs, input_b \in FewInputs :
          /\ agents' = chain
          /\ slot' = [n \in 1..Len(chain) |-> NoneV]
          /\ initial_input' = input_a
          /\ current_data' = input_a
          /\ other' = Locals("B", "loop", NoExc, input_b, input_b, 1)
    /\ idx' = 1
    /\ pc' = "loop"
    /\ UNCHANGED <<env, tid, exc, file, prior, handle, wpos, queries, calls, stdout, trace>>

\* The other run's locals become the current ones.
Switch ==
    /\ tid' = other.tid
    /\ pc' = other.pc
    /\ exc' = other.exc
    /\ initial_input' = other.initial_input
    /\ current_data' = other.current_data
    /\ idx' = other.idx
    /\ other' = Locals(tid, pc, exc, initial_input, current_data, idx)
    /\ UNCHANGED <<env, agents, slot, file, prior, handle, wpos, queries, calls, stdout,
                   trace>>

\* The first call of run is over (it returned, or it raised and the caller
\* caught the exception): the second call is entered.
NextRun ==
    /\ tid = "A"
    /\ other.tid = "B"
    /\ pc \in {"completed", "raised"}
    /\ Switch

\* The retrieval service answers with one of FewQueryOutcomes.
FewResponses == \A n \in 1..Len(queries) : queries[n].response \in FewQueryOutcomes

ActRetrievalFew == ActRetrieval /\ FewResponses'

\* One process calls run twice, one call after the other, on the same
\* Workflow and stage instances.
NextTwoRuns ==
    \/ Import
    \/ MainTwice
    \/ NextRun
    \/ Perceive
    \/ Complete
    \/ ActInput
    \/ ActRetrievalFew
    \/ ActSummarization
    \/ StorageOpen
    \/ StorageWrite
    \/ StorageFinish

SpecTwoRuns == Init /\ [][NextTwoRuns]_vars

\* Two threads call run on the same Workflow and stage instances at the same
\* time.  The chains are those of stages that hold a topic.
StartShared ==
    /\ MainTwice
    /\ \A n \in 1..Len(agents') : agents'[n] \notin {"Summarization", "Storage"}

\* The retrieval service fails, or answers 200 or 404 with one article.
SharedResponses ==
    \A n \in 1..Len(queries) :
       LET r == queries[n].response IN
       /\ r \in FewQueryOutcomes
       /\ r.exc = "none" => r.articles = <<DictE("str", <<"x">>)>>

ActRetrievalShared == ActRetrieval /\ SharedResponses'

\* No Storage stage runs: one prior file stands for all.
InitShared == Init /\ prior = NoFile

\* The interpreter switches to the other thread, which has steps to take.
Preempt ==
    /\ other.tid # "none"
    /\ other.pc \in {"loop", "act"}
    /\ Switch

NextShared ==
    \/ Import
    \/ StartShared
    \/ Preempt
    \/ Perceive
    \/ Complete
    \/ ActInput
    \/ ActRetrievalShared

SpecShared == InitShared /\ [][NextShared]_vars

\* ------------------------------------------------------------- properties
Called(k) == \E j \in 1..Len(trace) : trace[j].op = "act" /\ trace[j].stage = k
Returned(k) == \E j \in 1..Len(trace) : trace[j].op = "ret" /\ trace[j].stage = k
RetVal(k) == trace[CHOOSE j \in 1..Len(trace) : trace[j].op = "ret" /\ trace[j].stage = k].val
Printed(notice) == \E j \in 1..Len(stdout) : stdout[j] = notice
StagesOf(kind) == {k \in 1..Len(agents) : agents[k] = kind}
IsPrefix(a, b) == Len(a) <= Len(b) /\ SubSeq(b, 1, Len(a)) = a

\* C1: Workflow.run calls perceive and then act on each stage exactly once,
\* in sequence order: the calls and returns of a run are always an initial
\* part of perceive(1), act(1), return(1), perceive(2), act(2), return(2), ...
\* (so stage k+1 is not perceived before stage k's act returned), and a run
\* that completes has gone through every stage of the sequence.
C1_EachStageOnceInOrder ==
    /\ \A j \in 1..Len(trace) :
          /\ trace[j].stage = ((j - 1) \div 3) + 1
          /\ trace[j].op = <<"perceive", "act", "ret">>[((j - 1) % 3) + 1]
          /\ trace[j].stage <= Len(agents)
    /\ pc = "completed" => Len(trace) = 3 * Len(agents)

C1_Witness == pc = "completed" /\ agents = StandardChain

\* C2: the first stage perceives exactly initial_input, and every later
\* stage perceives exactly the value the stage before it returned from act.
C2_ValueHandedOver ==
    \A j \in 1..Len(trace) :
       trace[j].op = "perceive" =>
          IF trace[j].stage = 1 THEN trace[j].val = initial_input
          ELSE /\ j > 1
               /\ trace[j - 1].op = "ret"
               /\ trace[j - 1].stage = trace[j].stage - 1
               /\ trace[j].val = trace[j - 1].val

C2_Witness ==
    /\ pc = "completed"
    /\ agents = StandardChain
    /\ Len(trace[7].val.l) = 2
    /\ trace[10].val.l # <<>>
    /\ trace[10].val # trace[7].val

\* C3: when a stage's perceive or act raises during run, the error leaves
\* run at once: the raising call is the last call of the run, no later stage
\* is perceived or acted upon, the completion notice is not printed, the
\* process takes no further step, and the raising step leaves what earlier
\* stages printed, queried and wrote in place.
C3_FailFast ==
    /\ [](exc # NoExc /\ pc # "config_error" =>
            /\ pc = "raised"
            /\ trace # <<>>
            /\ trace[Len(trace)].op \in {"perceive", "act"}
            /\ trace[Len(trace)].stage = idx
            /\ \A j \in 1..Len(trace) : trace[j].stage <= idx
            /\ ~Printed("Workflow completed."))
    /\ [][/\ pc # "raised"
          /\ (pc' = "raised" =>
                 /\ file' = file
                 /\ IsPrefix(stdout, stdout')
                 /\ IsPrefix(queries, queries')
                 /\ IsPrefix(calls, calls'))]_vars

C3_Witness ==
    /\ pc = "raised"
    /\ agents = StandardChain
    /\ idx = 2
    /\ stdout # <<>>

\* The perceived input of stage k is a sequence of article records.
IsArticleSeq(v) == v.t = "list" /\ \A n \in 1..Len(v.l) : v.l[n].k = "dict"
HasContent(article) == article.f = "str" /\ article.c # <<>>
CallsOf(k) == LET AtStage(c) == c.stage = k IN SelectSeq(calls, AtStage)
QueryFailed(q) == q.response.exc # "none" \/ q.response.status # 200

\* C4: a Retrieval failure of either kind, a non-success response or a
\* network exception raised by the query, is absorbed inside the stage: its
\* act returns an empty article collection and the run does not end there.
C4_RetrievalFailureAbsorbed ==
    \A n \in 1..Len(queries) :
       QueryFailed(queries[n]) =>
          /\ Returned(queries[n].stage)
          /\ RetVal(queries[n].stage) = ListV(<<>>)
          /\ ~(pc = "raised" /\ idx = queries[n].stage)

\* C5: SummarizationAgent.act on a sequence of article records returns,
\* without raising, a sequence of the same length whose element i is the
\* no-content placeholder when article i has no or empty content, the failure
\* placeholder when the model call for article i raised, and the summary
\* derived from that call's response otherwise.
C5_OneSummaryPerArticle ==
    \A k \in StagesOf("Summarization") :
       Called(k) /\ IsArticleSeq(slot[k]) =>
          /\ Returned(k)
          /\ RetVal(k).t = "list"
          /\ Len(RetVal(k).l) = Len(slot[k].l)
          /\ \A n \in 1..Len(slot[k].l) :
                LET article == slot[k].l[n]
                    made == {m \in 1..Len(calls) : calls[m].stage = k /\ calls[m].article = n}
                IN IF ~HasContent(article) THEN RetVal(k).l[n] = StrE(NoContentText)
                   ELSE \E m \in made :
                           RetVal(k).l[n] =
                              IF calls[m].outcome.raised THEN StrE(UnavailableText)
                              ELSE StrE(Strip(calls[m].outcome.text))

C5_Witness ==
    \E k \in StagesOf("Summarization") :
       /\ Returned(k)
       /\ Len(slot[k].l) = 2
       /\ HasContent(slot[k].l[1]) /\ HasContent(slot[k].l[2])
       /\ RetVal(k).l[1] = StrE(UnavailableText)
       /\ RetVal(k).l[2] = StrE(<<"a">>)

\* C6: one Summarization act issues no model call for an article without
\* content and exactly one for each article with content, in input order,
\* each call carrying the prompt built from that article's content.
C6_OneCallPerContent ==
    \A k \in StagesOf("Summarization") :
       Called(k) /\ IsArticleSeq(slot[k]) =>
          LET cs == CallsOf(k)
              with == {n \in 1..Len(slot[k].l) : HasContent(slot[k].l[n])}
          IN /\ Len(cs) = Cardinality(with)
             /\ \A m \in 1..Len(cs) :
                   /\ cs[m].article \in with
                   /\ cs[m].request.prompt = PromptPrefix \o slot[k].l[cs[m].article].c
             /\ \A m1, m2 \in 1..Len(cs) : m1 < m2 => cs[m1].article < cs[m2].article

C6_Witness ==
    \E k \in StagesOf("Summarization") :
       /\ Returned(k)
       /\ Len(slot[k].l) = 2
       /\ ~HasContent(slot[k].l[1]) /\ HasContent(slot[k].l[2])
       /\ Len(CallsOf(k)) = 1
       /\ CallsOf(k)[1].outcome.raised

\* C7: a failure to open or to write the output file is not caught by
\* FileStorageAgent.act: it leaves act and run, the stage returns nothing and
\* the completion notice is not printed.
C7_StorageFailureFatal ==
    exc.type = "OSError" =>
       /\ pc = "raised"
       /\ agents[idx] = "Storage"
       /\ ~Returned(idx)
       /\ ~Printed("Workflow completed.")

C7_Witness ==
    /\ exc = Exc("OSError", "write")
    /\ pc = "raised"
    /\ agents = StandardChain
    /\ wpos = 2

\* The text act is to leave in the file for a sequence of summaries.
RECURSIVE Rendered(_)
Rendered(summaries) ==
    IF summaries = <<>> THEN <<>>
    ELSE Head(summaries).c \o <<"\n", "\n">> \o Rendered(Tail(summaries))

\* A Storage act has just returned.
StorageJustReturned ==
    /\ trace # <<>>
    /\ trace[Len(trace)].op = "ret"
    /\ agents[trace[Len(trace)].stage] = "Storage"

\* C8: when FileStorageAgent.act has returned, the file holds exactly the
\* perceived summaries in order, each followed by a blank line, whatever it
\* held before; so an act on a file that an earlier act with the same
\* summaries wrote leaves that same content.
C8_FileIsExactlyTheSummaries ==
    StorageJustReturned =>
       /\ file.exists
       /\ file.data = Rendered(Iter(slot[trace[Len(trace)].stage]))

C8_Witness ==
    /\ StorageJustReturned
    /\ prior.exists
    /\ prior.data = file.data
    /\ file.data # <<>>

\* C9: for a response with status 200 whose body has the articles field,
\* RetrievalAgent.act returns that sequence unchanged; with status 200 and no
\* such field it returns the empty sequence; with any other status it returns
\* the empty sequence whatever the body is.
C9_RetrievalResult ==
    \A n \in 1..Len(queries) :
       LET r == queries[n].response IN
       r.exc = "none" =>
          /\ (r.status = 200 /\ r.valid /\ r.has =>
                Returned(queries[n].stage) /\ RetVal(queries[n].stage) = ListV(r.articles))
          /\ (r.status = 200 /\ r.valid /\ ~r.has =>
                Returned(queries[n].stage) /\ RetVal(queries[n].stage) = ListV(<<>>))
          /\ (r.status # 200 =>
                Returned(queries[n].stage) /\ RetVal(queries[n].stage) = ListV(<<>>))

C9_Witness ==
    \E n \in 1..Len(queries) :
       /\ queries[n].response.status = 200
       /\ Len(queries[n].response.articles) = 2
       /\ queries[n].response.articles[1] # queries[n].response.articles[2]
       /\ Returned(queries[n].stage)

\* The credential is unset or empty.
Missing(name) == ~Truthy(env[name])

\* C10: when one of the two credentials is unset or empty at process start,
\* the process ends with a configuration error that names a missing variable,
\* before any stage is constructed or run: no perceive, no act, no retrieval
\* query, no model call, no file write.
C10_ConfigErrorFirst ==
    (\E name \in EnvNames : Missing(name)) =>
       /\ pc \in {"import", "config_error"}
       /\ agents = <<>> /\ slot = <<>>
       /\ trace = <<>> /\ queries = <<>> /\ calls = <<>> /\ stdout = <<>>
       /\ file = prior /\ handle = "closed"
       /\ pc = "config_error" =>
             /\ exc.type = "ValueError"
             /\ \E name \in EnvNames :
                   /\ Missing(name)
                   /\ exc.msg = "The environment variable " \o name \o " is not set."

C10_Witness ==
    /\ pc = "config_error"
    /\ ~Missing("OPENAI_API_KEY")
    /\ env["NEWS_API_KEY"] = NoneV
    /\ exc.msg = "The environment variable NEWS_API_KEY is not set."

\* The value stage k perceived last.
PerceivedVal(k) ==
    LET ps == {j \in 1..Len(trace) : trace[j].op = "perceive" /\ trace[j].stage = k}
    IN trace[CHOOSE j \in ps : \A j2 \in ps : j2 <= j].val
EmptyFile == [exists |-> TRUE, data |-> <<>>]

\* C12: in a run of the chain Input, Retrieval, Summarization, Storage whose
\* retrieval response has a non-200 status, Retrieval returns an empty
\* sequence, Summarization perceives and returns an empty sequence without a
\* model call, Storage leaves the file empty whatever it held, and the run
\* ends with the completion notice (nothing but a refusal to open the file
\* can end it otherwise).
C12_Non200RunEndsEmpty ==
    (/\ agents = StandardChain
     /\ \E n \in 1..Len(queries) :
           queries[n].response.exc = "none" /\ queries[n].response.status # 200) =>
       /\ Returned(2) /\ RetVal(2) = ListV(<<>>)
       /\ Called(3) => /\ PerceivedVal(3) = ListV(<<>>)
                       /\ Returned(3)
                       /\ RetVal(3) = ListV(<<>>)
       /\ calls = <<>>
       /\ Returned(4) => file = EmptyFile
       /\ pc = "raised" => exc = Exc("OSError", "open")
       /\ pc = "completed" => file = EmptyFile /\ Printed("Workflow completed.")

C12_Witness ==
    /\ pc = "completed"
    /\ agents = StandardChain
    /\ queries[1].response.status = 404
    /\ queries[1].response.articles # <<>>
    /\ prior.data # <<>>
    /\ file = EmptyFile

\* C13: every element of the sequence SummarizationAgent.act returns is the
\* no-content placeholder (content empty), the failure placeholder (the model
\* call raised) or a non-empty derived string (the model call succeeded,
\* whatever text it returned).
C13_ThreeKindsOfSummary ==
    \A k \in StagesOf("Summarization") :
       Returned(k) /\ IsArticleSeq(slot[k]) =>
          \A n \in 1..Len(RetVal(k).l) :
             IF ~HasContent(slot[k].l[n]) THEN RetVal(k).l[n] = StrE(NoContentText)
             ELSE \E m \in 1..Len(calls) :
                     /\ calls[m].stage = k /\ calls[m].article = n
                     /\ IF calls[m].outcome.raised
                        THEN RetVal(k).l[n] = StrE(UnavailableText)
                        ELSE RetVal(k).l[n].k = "str" /\ RetVal(k).l[n].c # <<>>

\* C14: the output file is open only inside a FileStorageAgent.act
\* invocation: whenever no Storage act is in progress, also after a write
\* failed part-way, the file is closed.
C14_HandleScopedToAct ==
    handle = "open" => pc = "write" /\ agents[idx] = "Storage" /\ ~Returned(idx)

C14_Witness ==
    /\ pc = "raised"
    /\ exc = Exc("OSError", "write")
    /\ file.data # <<>>
    /\ handle = "closed"

\* C16: in one run of the standard chain the Retrieval stage issues exactly
\* one query, for the topic it perceived: none before its act is called, one
\* from then on, whatever the outcome of the query.
C16_OneQueryPerRun ==
    agents = StandardChain =>
       /\ Len(queries) = IF Called(2) THEN 1 ELSE 0
       /\ \A n \in 1..Len(queries) : queries[n].stage = 2 /\ queries[n].q = PerceivedVal(2)

C16_Witness ==
    /\ pc = "completed"
    /\ agents = StandardChain
    /\ queries[1].response.status = 500

\* C17: InputAgent.act called after perceive(topic) returns exactly that
\* topic, for every topic, the empty string included, and never raises; the
\* call prints one status notice and changes nothing else.
C17_InputActReturnsTopic ==
    /\ [](\A k \in StagesOf("Input") :
             Called(k) => Returned(k) /\ RetVal(k) = PerceivedVal(k))
    /\ [][pc = "act" /\ agents[idx] = "Input" =>
             /\ stdout' = Append(stdout, "Proceeding with research on: {topic}")
             /\ UNCHANGED <<slot, file, handle, queries, calls>>]_vars

C17_Witness ==
    \E k \in StagesOf("Input") : Returned(k) /\ RetVal(k) = StrV(<<>>)

SavedNotice == "Summaries saved to research_summaries.txt."

\* C18: FileStorageAgent.act prints and returns the confirmation message
\* only after every perceived summary has been written and the file closed:
\* there is one confirmation per Storage act that returned, and none for an
\* act that is still writing or that failed to open or write.
C18_ConfirmationOnlyAfterWrite ==
    /\ Cardinality({j \in 1..Len(stdout) : stdout[j] = SavedNotice})
          = Cardinality({k \in StagesOf("Storage") : Returned(k)})
    /\ \A k \in StagesOf("Storage") : Returned(k) => RetVal(k) = StrV(SavedText)
    /\ StorageJustReturned =>
          LET k == trace[Len(trace)].stage IN
          /\ handle = "closed"
          /\ wpos = Len(Iter(slot[k])) + 1
          /\ file.data = Rendered(Iter(slot[k]))
    /\ (pc = "write" \/ (pc = "raised" /\ agents[idx] = "Storage")) => ~Returned(idx)

C18_Witness ==
    /\ StorageJustReturned
    /\ pc = "completed"
    /\ Len(Iter(slot[trace[Len(trace)].stage])) = 2
    /\ stdout[Len(stdout) - 1] = SavedNotice

\* FileStorageAgent.act failed after it had opened the file, while
\* processing the summary at wpos.
FailedAfterOpen ==
    /\ pc = "raised"
    /\ agents[idx] = "Storage"
    /\ exc # Exc("OSError", "open")
\* The entries of the summaries before wpos.
WrittenSoFar ==
    IF slot[idx].t = "none" THEN <<>> ELSE Rendered(SubSeq(Iter(slot[idx]), 1, wpos - 1))
AllStr(v) == v.t # "none" /\ \A n \in 1..Len(Iter(v)) : Iter(v)[n].k = "str"

\* C19 (as claimed): when act fails after opening the file, while processing
\* summary i or because no summaries were perceived, the file holds exactly
\* the complete entries of summaries 1..i-1, a proper prefix of the intended
\* content, and never the old content.
C19_PrefixNeverOldContent ==
    FailedAfterOpen =>
       /\ file.exists /\ file.data = WrittenSoFar
       /\ AllStr(slot[idx]) =>
             /\ IsPrefix(file.data, Rendered(Iter(slot[idx])))
             /\ file.data # Rendered(Iter(slot[idx]))
       /\ file # prior

\* C19 (amended): when act fails after opening the file, the file holds
\* exactly the complete entries of summaries 1..i-1, a proper prefix of the
\* intended content, whatever the old content was: nothing is rolled back,
\* and the file equals the old content only when that was this very prefix.
C19_PrefixNoRollback ==
    FailedAfterOpen =>
       /\ file.exists /\ file.data = WrittenSoFar
       /\ AllStr(slot[idx]) =>
             /\ IsPrefix(file.data, Rendered(Iter(slot[idx])))
             /\ file.data # Rendered(Iter(slot[idx]))
       /\ file = prior => prior.exists /\ prior.data = WrittenSoFar

C19_Witness ==
    /\ FailedAfterOpen
    /\ wpos = 2
    /\ prior.data # <<>>
    /\ file.data # <<>>
    /\ file # prior

\* ------------------------------------------------------------- two runs: properties
EventsBy(t, op, k) ==
    {j \in 1..Len(trace) : trace[j].run = t /\ trace[j].op = op /\ trace[j].stage = k}
PerceivedBy(t, k) == EventsBy(t, "perceive", k) # {}
PerceivedValBy(t, k) == trace[CHOOSE j \in EventsBy(t, "perceive", k) : TRUE].val
CalledBy(t, k) == EventsBy(t, "act", k) # {}
ReturnedBy(t, k) == EventsBy(t, "ret", k) # {}
RetValBy(t, k) == trace[CHOOSE j \in EventsBy(t, "ret", k) : TRUE].val
QueriesBy(t, k) ==
    LET Mine(q) == q.run = t /\ q.stage = k IN SelectSeq(queries, Mine)
CallsBy(t, k) ==
    LET Mine(c) == c.run = t /\ c.stage = k IN SelectSeq(calls, Mine)
\* The locals of run t.
LocalsOf(t) ==
    IF tid = t THEN Locals(tid, pc, exc, initial_input, current_data, idx) ELSE other
\* Run t raised in the act of stage k.
RaisedInAct(t, k) ==
    LocalsOf(t).pc = "raised" /\ LocalsOf(t).idx = k /\ CalledBy(t, k)

\* What the model service did for article n in run t's act of stage k (any
\* outcome where it was not called).
OutcomesBy(t, k, len) ==
    [n \in 1..len |->
        LET made == {m \in 1..Len(CallsBy(t, k)) : CallsBy(t, k)[m].article = n}
        IN IF made = {} THEN [raised |-> TRUE, text |-> <<>>]
           ELSE CallsBy(t, k)[CHOOSE m \in made : TRUE].outcome]

\* What the act of a newly constructed stage of class kind does once it has
\* perceived input, given the external responses run t received at stage k:
\* the result of the stage code on that input and those responses alone.
FreshAct(kind, input, t, k) ==
    IF kind = "Input" THEN InputAct(input)
    ELSE IF kind = "Retrieval" THEN RetrievalAct(QueriesBy(t, k)[1].response)
    ELSE SummarizationAct(input,
            OutcomesBy(t, k, IF input.t = "none" THEN 0 ELSE Len(Iter(input))))

\* C15: when run is called twice in a row on the same Workflow and stages,
\* every stage's output in the second run is what a newly constructed stage
\* gives for the value perceived in the second run and the external
\* responses of the second run: the same returned value or the same
\* exception, the query for the perceived topic, and, for Storage, a file
\* holding the second run's summaries only.
C15_SecondRunAsFresh ==
    \A k \in 1..Len(agents) :
       CalledBy("B", k) =>
          IF agents[k] = "Storage"
          THEN /\ ReturnedBy("B", k) => RetValBy("B", k) = StrV(SavedText)
               /\ (ReturnedBy("B", k) /\ trace[Len(trace)] = Ev("ret", k, StrV(SavedText))
                                       /\ tid = "B") =>
                     file.data = Rendered(Iter(PerceivedValBy("B", k)))
               /\ RaisedInAct("B", k) /\ LocalsOf("B").exc.type = "TypeError" =>
                     ~AllStr(PerceivedValBy("B", k))
          ELSE LET r == FreshAct(agents[k], PerceivedValBy("B", k), "B", k) IN
               /\ agents[k] = "Retrieval" =>
                     /\ Len(QueriesBy("B", k)) = 1
                     /\ QueriesBy("B", k)[1].q = PerceivedValBy("B", k)
               /\ IF r.exc = NoExc
                  THEN ReturnedBy("B", k) /\ RetValBy("B", k) = r.ret
                  ELSE RaisedInAct("B", k) /\ LocalsOf("B").exc = r.exc
               /\ Len(CallsBy("B", k)) = Len(r.calls)
               /\ \A m \in 1..Len(r.calls) : CallsBy("B", k)[m].request = r.calls[m].request

C15_Witness ==
    /\ tid = "B"
    /\ pc = "completed"
    /\ agents = StandardChain
    /\ PerceivedValBy("A", 1) # PerceivedValBy("B", 1)
    /\ PerceivedBy("A", 4) /\ Len(PerceivedValBy("A", 4).l) = 1
    /\ Len(PerceivedValBy("B", 3).l) = 1
    /\ PerceivedValBy("A", 4) # PerceivedValBy("B", 4)
    /\ file.data # <<>>

\* C11: a stage holds one input slot, unprotected: when two runs use the
\* same stage and run tb's perceive on it comes between run ta's perceive and
\* run ta's act, tb's value replaces ta's, neither perceive fails, and ta's
\* act gives the output computed from tb's input (for Input, tb's topic
\* itself; for Retrieval, the query for tb's topic).
C11_SharedSlotOverwritten ==
    \A k \in 1..Len(agents) : \A ta, tb \in {"A", "B"} :
       \A i \in EventsBy(ta, "perceive", k), j \in EventsBy(tb, "perceive", k),
          m \in EventsBy(ta, "act", k) :
          (ta # tb /\ i < j /\ j < m) =>
             LET r == FreshAct(agents[k], trace[j].val, ta, k) IN
             /\ CalledBy(tb, k) \/ LocalsOf(tb).pc = "act"
             /\ IF r.exc = NoExc
                THEN ReturnedBy(ta, k) /\ RetValBy(ta, k) = r.ret
                ELSE RaisedInAct(ta, k) /\ LocalsOf(ta).exc = r.exc
             /\ agents[k] = "Input" => RetValBy(ta, k) = trace[j].val
             /\ agents[k] = "Retrieval" => QueriesBy(ta, k)[1].q = trace[j].val

C11_Witness ==
    \E i, j, m \in 1..Len(trace) :
       /\ i < j /\ j < m
       /\ trace[i].op = "perceive" /\ trace[i].run = "A" /\ trace[i].stage = 1
       /\ trace[j].op = "perceive" /\ trace[j].run = "B" /\ trace[j].stage = 1
       /\ trace[m].op = "ret" /\ trace[m].run = "A" /\ trace[m].stage = 1
       /\ agents[1] = "Input"
       /\ trace[i].val # trace[j].val
       /\ trace[m].val = trace[j].val

====
